---- MODULE Spec2Model ----
(***************************************************************************)
(* Discord signal monitor: the capture hook in the Discord page, the CDP   *)
(* client (connect / listen / disconnect), the reconnecting main loop, the *)
(* SignalRouter (filters, dedup, classifier, TradeActionDetector refiner)  *)
(* and the ApiClient (endpoint selection, _post_with_retry).               *)
(*                                                                         *)
(* Text is a sequence of characters; CJK characters and emoji are written  *)
(* as ASCII names ("zhi","ying","chu","ju" for the four characters of the  *)
(* first close keyword).  Optional JSON values are tagged records.         *)
(***************************************************************************)
EXTENDS Integers, Sequences, FiniteSets, TLC

(* ------------------------------ bounds -------------------------------- *)
\* events the Discord page dispatches in one run
MaxEvents == 2
\* distinct message identifiers
NumIds == 3
\* stands for SignalRouter._max_dedup_size (10000, signal_router.py:52)
MaxDedupSize == 2
\* stands for the capture queue's ceiling (100, cdp_client.py:130)
QueueCap == 2
\* transport failures explored on the ingestion path
MaxFailures == 1
\* transport failures explored when the whole of main() is run
MaxMainFailures == 2
\* model answers scripted for one parse() call
MaxScript == 3
\* disconnect() calls explored when the client is driven directly
MaxDisconnects == 2
\* handle_message invocations explored when the filters are driven directly
MaxFilterCalls == 2
\* handle_message invocations explored when the router is driven directly
MaxCalls == 4

(* ------------------------- program constants -------------------------- *)
MAX_RETRIES == 3
RETRY_DELAYS == <<1, 3, 10>>
SummaryLen == 300
ErrorLen == 200
MaxWait == 60
AI_MAX_RETRIES == 3
AI_RETRY_DELAYS == <<2, 5, 10>>

(* ------------------------------ helpers ------------------------------- *)
Min(a, b) == IF a < b THEN a ELSE b

\* s[:n]
Take(s, n) == SubSeq(s, 1, Min(n, Len(s)))

\* kw in text (substring search)
Contains(text, kw) ==
    \E i \in 1..(Len(text) - Len(kw) + 1) : SubSeq(text, i, i + Len(kw) - 1) = kw

\* text.startswith(p)
StartsWith(text, p) == Len(text) >= Len(p) /\ SubSeq(text, 1, Len(p)) = p

\* text.endswith(p)
EndsWith(text, p) ==
    Len(text) >= Len(p) /\ SubSeq(text, Len(text) - Len(p) + 1, Len(text)) = p

IsSpace(c) == c \in {" ", "nl"}

RECURSIVE LStrip(_)
LStrip(s) == IF s # <<>> /\ IsSpace(Head(s)) THEN LStrip(Tail(s)) ELSE s

RECURSIVE RStrip(_)
RStrip(s) ==
    IF s # <<>> /\ IsSpace(s[Len(s)]) THEN RStrip(SubSeq(s, 1, Len(s) - 1)) ELSE s

\* str.strip()
Strip(s) == RStrip(LStrip(s))

\* "\n".join(parts)
RECURSIVE Join(_)
Join(parts) ==
    IF parts = <<>> THEN <<>>
    ELSE IF Len(parts) = 1 THEN parts[1]
    ELSE parts[1] \o <<"nl">> \o Join(Tail(parts))

\* optional JSON values
None == [t |-> "none"]
Num(v) == [t |-> "num", v |-> v]
Str(s) == [t |-> "str", v |-> s]
\* JSON true, false and the NaN literal json.loads accepts
JTrue == [t |-> "true"]
JFalse == [t |-> "false"]
NaN == [t |-> "nan"]

Truthy_zero_counts(x) == x.t \notin {"none", "false"}

\* Python truthiness of an optional JSON value
Truthy(x) ==
    CASE x.t = "none" -> FALSE
      [] x.t = "num" -> x.v # 0
      [] x.t = "true" -> TRUE
      [] x.t = "false" -> FALSE
      [] x.t = "nan" -> TRUE
      [] OTHER -> x.v # ""

(* ----------------------- TradeActionDetector -------------------------- *)
close_keywords ==
    << <<"zhi", "ying", "chu", "ju">>,
       <<"chu", "ju">>,
       <<"quan", "bu", "ping", "cangT">>,
       <<"quan", "bu", "ping", "cangS">>,
       <<"ping", "cangT">>,
       <<"ping", "cangS">>,
       <<"qing", "cangT">>,
       <<"qing", "cangS">> >>

holding_keywords ==
    << <<"jiT", "xuT", "chi", "you">>,
       <<"jiS", "xuS", "chi", "you">>,
       <<"jiT", "xuT">>,
       <<"jiS", "xuS">>,
       <<"zuo", "cheng", "ben", "bao", "huT", "jiT", "xuT", "chi", "you">>,
       <<"zuo", "cheng", "ben", "bao", "huS", "jiS", "xuS", "chi", "you">> >>

contains_any(text, keywords) ==
    IF text = <<>> \/ keywords = <<>> THEN FALSE
    ELSE \E k \in 1..Len(keywords) : Contains(text, keywords[k])

detect_close_ignores_holding(message) ==
    IF message = <<>> THEN FALSE ELSE contains_any(message, close_keywords)

detect_close(message) ==
    IF message = <<>> THEN FALSE
    ELSE IF ~contains_any(message, close_keywords) THEN FALSE
    ELSE IF contains_any(message, holding_keywords) THEN FALSE
    ELSE TRUE

(* -------------------------- AiSignalParser ---------------------------- *)
USDT == <<"U", "S", "D", "T">>
BTCUSDT == <<"B", "T", "C">> \o USDT

\* isinstance(ratio, (int, float)): bool is a subclass of int, NaN is a float
is_int_or_float(x) == x.t \in {"num", "true", "false", "nan"}

\* ratio <= 0 (True is 1, False is 0; every comparison with NaN is false)
le_zero(x) ==
    CASE x.t = "num" -> x.v <= 0
      [] x.t = "false" -> TRUE
      [] OTHER -> FALSE

\* ratio > 1, in hundredths
gt_one(x) ==
    CASE x.t = "num" -> x.v > 100
      [] OTHER -> FALSE

\* the close_ratio test of _validate: TRUE when the candidate is rejected
ratio_rejected(ratio) ==
    ratio.t # "none" /\ (~is_int_or_float(ratio) \/ le_zero(ratio) \/ gt_one(ratio))

validate_no_symbol_check(parsed) ==
    LET action == parsed.action
        symbol == parsed.symbol
        fixed  == IF EndsWith(symbol, USDT) THEN parsed
                  ELSE [parsed EXCEPT !.symbol = symbol \o USDT]
    IN  IF action = "" THEN [ok |-> FALSE, parsed |-> parsed]
        ELSE IF action = "INFO" THEN [ok |-> TRUE, parsed |-> parsed]
        ELSE IF action = "ENTRY" THEN
            IF parsed.is_dca
            THEN [ok |-> Truthy(parsed.entry_price), parsed |-> fixed]
            ELSE [ok |-> parsed.side \in {"LONG", "SHORT"} /\ Truthy(parsed.entry_price),
                  parsed |-> fixed]
        ELSE IF action = "CANCEL" THEN [ok |-> TRUE, parsed |-> fixed]
        ELSE IF action = "MOVE_SL" THEN [ok |-> TRUE, parsed |-> fixed]
        ELSE IF action = "CLOSE" THEN [ok |-> ~ratio_rejected(parsed.close_ratio), parsed |-> fixed]
        ELSE [ok |-> FALSE, parsed |-> fixed]

\* _validate: [ok, parsed]; parsed is the dict after the in-place symbol fix
validate(parsed) ==
    LET action == parsed.action
        symbol == parsed.symbol
        fixed  == IF EndsWith(symbol, USDT) THEN parsed
                  ELSE [parsed EXCEPT !.symbol = symbol \o USDT]
    IN  IF action = "" THEN [ok |-> FALSE, parsed |-> parsed]
        ELSE IF action = "INFO" THEN [ok |-> TRUE, parsed |-> parsed]
        ELSE IF symbol = <<>> THEN [ok |-> FALSE, parsed |-> parsed]
        ELSE IF action = "ENTRY" THEN
            IF parsed.is_dca
            THEN [ok |-> Truthy(parsed.entry_price), parsed |-> fixed]
            ELSE [ok |-> parsed.side \in {"LONG", "SHORT"} /\ Truthy(parsed.entry_price),
                  parsed |-> fixed]
        ELSE IF action = "CANCEL" THEN [ok |-> TRUE, parsed |-> fixed]
        ELSE IF action = "MOVE_SL" THEN [ok |-> TRUE, parsed |-> fixed]
        ELSE IF action = "CLOSE" THEN [ok |-> ~ratio_rejected(parsed.close_ratio), parsed |-> fixed]
        ELSE [ok |-> FALSE, parsed |-> fixed]

\* the classifier's replies: the call raised, the text was not JSON, or a dict
NoParsed == [some |-> FALSE]
SomeParsed(d) == [some |-> TRUE, d |-> d]

parse_bad_json_as_info(reply) ==
    IF reply.kind = "exception" THEN NoParsed
    ELSE IF reply.kind = "bad_json"
    THEN SomeParsed([action |-> "INFO", symbol |-> <<>>, side |-> "", entry_price |-> None,
                     close_ratio |-> None, is_dca |-> FALSE, refinement |-> ""])
    ELSE LET v == validate(reply.d)
         IN  IF v.ok THEN SomeParsed(v.parsed) ELSE NoParsed

\* AiSignalParser.parse, given what generate_content did
parse(reply) ==
    IF reply.kind # "json" THEN NoParsed
    ELSE LET v == validate(reply.d)
         IN  IF v.ok THEN SomeParsed(v.parsed) ELSE NoParsed

(* ----------------------------- ApiClient ------------------------------ *)
base_url == <<"http://localhost:8080">>
execute_endpoint == <<"/api/execute-signal">>
parse_endpoint == <<"/api/parse-signal">>
broadcast_trade_endpoint == <<"/api/broadcast-trade">>
execute_trade_endpoint == <<"/api/execute-trade">>

ExecutionResult(success, status_code, summary, error, raw_response) ==
    [success |-> success, status_code |-> status_code, summary |-> summary,
     error |-> error, raw_response |-> raw_response]

NoBody == [isDict |-> FALSE, error |-> None, repr |-> <<>>]
NoError == [kind |-> "none"]
NoResult == [success |-> FALSE, status_code |-> -1, summary |-> <<>>,
             error |-> NoError, raw_response |-> NoBody]

send_signal_url_always_executes(dry_run) == base_url \o execute_endpoint

\* send_signal's URL
send_signal_url(dry_run) ==
    IF dry_run THEN base_url \o parse_endpoint ELSE base_url \o execute_endpoint

send_trade_url_swapped(multi_user_enabled) ==
    IF multi_user_enabled THEN base_url \o execute_trade_endpoint
    ELSE base_url \o broadcast_trade_endpoint

\* send_trade's URL (the call is not a dry run)
send_trade_url(multi_user_enabled) ==
    IF multi_user_enabled THEN base_url \o broadcast_trade_endpoint
    ELSE base_url \o execute_trade_endpoint

\* send_trade's dry-run result: "[DRY RUN] {trade_request}"
dry_run_result(trade_request) ==
    ExecutionResult(TRUE, 200, <<"[DRY RUN]", trade_request>>, NoError, NoBody)

\* status codes the success branch takes
is_success(status) == status = 200

is_no_retry_below_400(status) == status < 400

\* status codes returned at once, without a retry
is_no_retry(status) == status < 500

\* body.get("error", str(body)) if isinstance(body, dict) else str(body)
error_msg(body) ==
    IF body.isDict /\ body.error.t # "none" THEN [kind |-> "server", text |-> body.error]
    ELSE [kind |-> "server", text |-> Str(body.repr)]

\* last_error after a 5xx response or a raised exception
http_error(resp) ==
    IF resp.kind = "exception" THEN [kind |-> "request_failed"]
    ELSE [kind |-> "http", status |-> resp.status, text |-> Take(resp.body.repr, ErrorLen)]

\* "All {MAX_RETRIES} retries failed: {last_error}"
exhausted_result(last_error) ==
    ExecutionResult(FALSE, 0, <<>>,
                    [kind |-> "exhausted", attempts |-> MAX_RETRIES, last |-> last_error],
                    NoBody)

\* attempt < MAX_RETRIES - 1 (attempt counts from 0)
has_retry_left(attempt) == attempt < MAX_RETRIES - 1

retry_delay_first(attempt) == RETRY_DELAYS[1]

\* RETRY_DELAYS[attempt] (attempt counts from 0)
retry_delay(attempt) == RETRY_DELAYS[attempt + 1]

(* ---------------------------- SignalRouter ---------------------------- *)
EMOJI_ENTRY == <<"loudspeaker">>
EMOJI_CANCEL == <<"warning", "vs16">>
EMOJI_ROCKET == <<"rocket">>
EMOJI_STOP == <<"stopsign">>
EMOJI_MONEY == <<"moneybag">>

\* SIGNAL_TYPES, in the dict's order
SIGNAL_TYPES ==
    << <<EMOJI_ENTRY, "ENTRY">>, <<EMOJI_CANCEL, "CANCEL">>, <<EMOJI_ROCKET, "INFO">>,
       <<EMOJI_STOP, "INFO">>, <<EMOJI_MONEY, "INFO">> >>

\* KEYWORD_SIGNALS, in the dict's order
KEYWORD_SIGNALS ==
    << << <<"TP-SL", " ", "xiu", "gai">>, "MODIFY" >>,
       << <<"TP-SL", "xiu", "gai">>, "MODIFY" >> >>

ACTIONABLE_TYPES == {"ENTRY", "CANCEL", "MODIFY"}

RECURSIVE first_prefix(_, _)
first_prefix(stripped, table) ==
    IF table = <<>> THEN ""
    ELSE IF StartsWith(stripped, table[1][1]) THEN table[1][2]
    ELSE first_prefix(stripped, Tail(table))

RECURSIVE first_keyword(_, _)
first_keyword(stripped, table) ==
    IF table = <<>> THEN ""
    ELSE IF Contains(stripped, table[1][1]) THEN table[1][2]
    ELSE first_keyword(stripped, Tail(table))

_identify_type_keyword_first(content) ==
    LET stripped == Strip(content)
        byEmoji  == first_prefix(stripped, SIGNAL_TYPES)
        byKw     == first_keyword(stripped, KEYWORD_SIGNALS)
    IN  IF byKw # "" THEN byKw
        ELSE IF byEmoji # "" THEN byEmoji
        ELSE "UNKNOWN"

_identify_type(content) ==
    LET stripped == Strip(content)
        byEmoji  == first_prefix(stripped, SIGNAL_TYPES)
        byKw     == first_keyword(stripped, KEYWORD_SIGNALS)
    IN  IF byEmoji # "" THEN byEmoji
        ELSE IF byKw # "" THEN byKw
        ELSE "UNKNOWN"

\* the parts of an embed, title then description, empty ones skipped
embed_parts(embed) ==
    (IF embed.title # <<>> THEN <<embed.title>> ELSE <<>>)
    \o (IF embed.description # <<>> THEN <<embed.description>> ELSE <<>>)

RECURSIVE embeds_parts(_)
embeds_parts(embeds) ==
    IF embeds = <<>> THEN <<>>
    ELSE embed_parts(Head(embeds)) \o embeds_parts(Tail(embeds))

build_content_embeds_first(msg) ==
    Join(embeds_parts(msg.embeds) \o (IF msg.content # <<>> THEN <<msg.content>> ELSE <<>>))

\* message text and embeds combined
build_content(msg) ==
    Join((IF msg.content # <<>> THEN <<msg.content>> ELSE <<>>) \o embeds_parts(msg.embeds))

\* the channel, guild and author filters (an empty list means no filter)
passes_filters(cfg, msg) ==
    /\ (cfg.channel_ids # {} => msg.channel_id \in cfg.channel_ids)
    /\ (cfg.guild_ids # {} => msg.guild_id \in cfg.guild_ids)
    /\ (cfg.author_ids # {} => msg.author_id \in cfg.author_ids)

is_duplicate_never(processed, message_id) == FALSE

\* message_id in self._processed_ids
is_duplicate(processed, message_id) == message_id \in processed

trim_dedup_set_never(processed) == {processed}

\* the sets _trim_dedup_set may leave: list(set)[max // 2:] in the set's
\* iteration order, which is not the insertion order
trim_dedup_set(processed) ==
    IF Cardinality(processed) > MaxDedupSize
    THEN {keep \in SUBSET processed :
            Cardinality(keep) = Cardinality(processed) - (MaxDedupSize \div 2)}
    ELSE {processed}

detector_close_no_stamp ==
    [action |-> "CLOSE", symbol |-> BTCUSDT, side |-> "", entry_price |-> None,
     close_ratio |-> None, is_dca |-> FALSE, refinement |-> ""]

\* the dict the detector synthesizes when the classifier failed
detector_close ==
    [action |-> "CLOSE", symbol |-> BTCUSDT, side |-> "", entry_price |-> None,
     close_ratio |-> None, is_dca |-> FALSE, refinement |-> "NONE->CLOSE by TradeActionDetector"]

refine_any_action(parsed, content) ==
    IF ~parsed.some THEN
        IF detect_close(content)
        THEN [parsed |-> SomeParsed(detector_close), skip |-> FALSE]
        ELSE [parsed |-> NoParsed, skip |-> FALSE]
    ELSE IF detect_close(content)
    THEN [parsed |-> SomeParsed(
              [parsed.d EXCEPT !.action = "CLOSE",
                               !.refinement = "INFO->CLOSE by TradeActionDetector"]),
          skip |-> FALSE]
    ELSE [parsed |-> parsed, skip |-> parsed.d.action = "INFO"]

\* TradeActionDetector's part of _forward_signal: [parsed, skip]
refine(parsed, content) ==
    IF ~parsed.some THEN
        IF detect_close(content)
        THEN [parsed |-> SomeParsed(detector_close), skip |-> FALSE]
        ELSE [parsed |-> NoParsed, skip |-> FALSE]
    ELSE IF parsed.d.action = "INFO" THEN
        IF detect_close(content)
        THEN [parsed |-> SomeParsed(
                  [parsed.d EXCEPT !.action = "CLOSE",
                                   !.refinement = "INFO->CLOSE by TradeActionDetector",
                                   !.symbol = IF parsed.d.symbol = <<>> THEN BTCUSDT
                                              ELSE parsed.d.symbol]),
              skip |-> FALSE]
        ELSE [parsed |-> parsed, skip |-> TRUE]
    ELSE [parsed |-> parsed, skip |-> FALSE]

route_info_falls_back(refined) ==
    IF refined.parsed.some /\ refined.parsed.d.action \notin {"INFO", "UNKNOWN"}
    THEN "trade"
    ELSE "signal"

\* where _forward_signal goes after the refiner: "trade", "skip" or "signal"
route(refined) ==
    IF refined.skip THEN "skip"
    ELSE IF refined.parsed.some /\ refined.parsed.d.action \notin {"INFO", "UNKNOWN"}
         THEN "trade"
    ELSE IF refined.parsed.some /\ refined.parsed.d.action = "INFO" THEN "skip"
    ELSE "signal"

after_send_trade_falls_through == "fallback"

\* line 208: after send_trade's result is logged, _forward_signal returns
after_send_trade == "idle"


(* ------------------------------- state -------------------------------- *)
VARIABLES
    config,            \* AppConfig: dry_run, multi_user_enabled, ai.enabled, filters, cdp
    processed_ids,     \* SignalRouter._processed_ids
    rpc,               \* where the handle_message coroutine is suspended
    cur,               \* its locals: msg, content, parsed, and the reply parse() got
                       \* (kept until the first request is answered)
    post,              \* _post_with_retry's locals: url, payload, attempt, last_error
    result,            \* the ExecutionResult handed back to _forward_signal
    calls,             \* Delivery Client calls made by the running handle_message
    delivered,         \* Delivery Client calls made so far, per message identifier
    obs,               \* the running _post_with_retry: requests, sleeps, last response
    invoked,           \* handle_message invocations so far; the last one's id and outcome
    jsActive,          \* window.__signalMonitorActive
    jsQueueDef,        \* window.__signalMonitorQueue is defined
    jsQueue,           \* window.__signalMonitorQueue
    jsSubs,            \* MESSAGE_CREATE subscriptions the hook has made on the Dispatcher
    emitted,           \* events the page has dispatched so far
    ws,                \* CdpClient._ws is set
    mpc,               \* where main()'s loop is
    attempt,           \* main()'s attempt
    connection_status, \* main()'s connection_status
    wait,              \* the backoff the loop last computed
    failures,          \* transport failures the run may still meet
    batch,             \* listen(): the drained messages not yet dispatched
    captured,          \* sequence numbers of the events the hook has run for
    handed,            \* sequence numbers of the events passed to the callback
    last_handed,       \* sequence number of the event passed last
    trial,             \* what a harness works on: a candidate dict under _validate, the
                       \* events handed to handle_message, the answers scripted for parse()
    heartbeat,         \* the heartbeat task, how many such tasks are alive, the status its last report carried, and whether it got through
    poll_failed,       \* the last poll failed and listen() went on
    closed             \* what close() did to the session disconnect() closed last

routerVars == <<processed_ids, rpc, cur, post, result, calls, delivered, obs, invoked>>
pageVars == <<jsActive, jsQueueDef, jsQueue, jsSubs, emitted, captured>>
mainVars == <<ws, mpc, attempt, connection_status, wait, failures>>
listenVars == <<batch, handed, last_handed>>
sideVars == <<heartbeat, poll_failed, closed>>
connVars == <<pageVars, mainVars, listenVars, sideVars>>
vars == <<config, routerVars, connVars, trial>>

Ids == 1..NumIds

NoMsg == [id |-> 0, channel_id |-> "", guild_id |-> "", author_id |-> "",
          author_name |-> "", content |-> <<>>, embeds |-> <<>>]
NoReply == [kind |-> "none"]
NoCur == [msg |-> NoMsg, content |-> <<>>, parsed |-> NoParsed, reply |-> NoReply]
NoPost == [url |-> <<>>, payload |-> [kind |-> "none"], attempt |-> 0,
           last_error |-> NoError, delay |-> 0, caller |-> ""]
NoResp == [kind |-> "none"]
NoObs == [requests |-> 0, sleeps |-> <<>>, resp |-> NoResp, urls |-> {}, only5xx |-> TRUE]

(* ------------------------------ inputs -------------------------------- *)
TextClose == <<"zhi", "ying", "chu", "ju">>
TextCloseHold == <<"jiS", "xuS", "chi", "you", " ", "zhi", "ying", "chu", "ju">>
TextChat == <<"h", "i">>
TextEntry == EMOJI_ENTRY \o <<" ", "B", "T", "C">>
TextBlank == <<" ", "nl">>
TextCancel == EMOJI_CANCEL \o <<" ", "B", "T", "C">>
TextInfo == EMOJI_ROCKET \o <<" ", "B", "T", "C">>
TextInfoModify == EMOJI_MONEY \o <<" ", "TP-SL", "xiu", "gai">>
TextModify == <<"nl", "B", "T", "C", " ", "TP-SL", " ", "xiu", "gai">>

\* the shapes of MESSAGE_CREATE events: channel, guild, author, body, embeds
Templates ==
    { [channel_id |-> "chan1", guild_id |-> "g1", author_id |-> "u1", author_name |-> "chen",
       content |-> TextClose, embeds |-> <<>>],
      [channel_id |-> "chan1", guild_id |-> "g1", author_id |-> "u1", author_name |-> "chen",
       content |-> TextCloseHold, embeds |-> <<>>],
      [channel_id |-> "chan1", guild_id |-> "g1", author_id |-> "u2", author_name |-> "bot",
       content |-> <<>>, embeds |-> << [title |-> TextEntry, description |-> TextChat] >>],
      [channel_id |-> "chan1", guild_id |-> "g1", author_id |-> "u1", author_name |-> "chen",
       content |-> TextBlank, embeds |-> << [title |-> <<>>, description |-> <<>>] >>],
      [channel_id |-> "chan2", guild_id |-> "g1", author_id |-> "u1", author_name |-> "chen",
       content |-> TextClose, embeds |-> <<>>] }

Message(i, t) ==
    [id |-> i, channel_id |-> t.channel_id, guild_id |-> t.guild_id,
     author_id |-> t.author_id, author_name |-> t.author_name,
     content |-> t.content, embeds |-> t.embeds]

Messages == {Message(i, t) : i \in Ids, t \in Templates}

Dict(action, symbol, side, entry_price, close_ratio, is_dca) ==
    [action |-> action, symbol |-> symbol, side |-> side, entry_price |-> entry_price,
     close_ratio |-> close_ratio, is_dca |-> is_dca, refinement |-> ""]

\* what the model may answer (close_ratio in hundredths: 50 is 0.5)
Dicts ==
    { Dict("INFO", <<>>, "", None, None, FALSE),
      Dict("INFO", <<"B", "T", "C">>, "", None, Num(150), FALSE),
      Dict("ENTRY", <<"E", "T", "H">>, "SHORT", Num(2560), None, FALSE),
      Dict("ENTRY", BTCUSDT, "BUY", Num(70000), None, FALSE),
      Dict("ENTRY", BTCUSDT, "LONG", Num(0), None, FALSE),
      Dict("CANCEL", BTCUSDT, "", None, Num(500), FALSE),
      Dict("MOVE_SL", <<>>, "", None, None, FALSE),
      Dict("CLOSE", BTCUSDT, "", None, Num(50), FALSE),
      Dict("CLOSE", BTCUSDT, "", None, Num(0), FALSE),
      Dict("CLOSE", BTCUSDT, "", None, Str("half"), FALSE),
      Dict("UNKNOWN", BTCUSDT, "", None, None, FALSE),
      Dict("", BTCUSDT, "", None, None, FALSE) }

Replies ==
    {[kind |-> "exception"], [kind |-> "bad_json"]} \cup {[kind |-> "json", d |-> d] : d \in Dicts}

BodyError == [isDict |-> TRUE, error |-> Str("bad request"), repr |-> <<"{", "e", "}">>]
BodyDict == [isDict |-> TRUE, error |-> None, repr |-> <<"{", "o", "k", "}">>]
BodyLong == [isDict |-> FALSE, error |-> None, repr |-> [i \in 1..(SummaryLen + 1) |-> "x"]]

\* what the downstream API may answer to one request
Http(status, body) == [kind |-> "http", status |-> status, body |-> body]

Responses ==
    { [kind |-> "exception"],
      Http(200, BodyLong), Http(201, BodyDict),
      Http(400, BodyError), Http(404, BodyDict),
      Http(500, BodyError), Http(503, BodyLong) }

Configs ==
    {[dry_run |-> d, multi_user_enabled |-> m, ai_enabled |-> a,
      channel_ids |-> {"chan1"}, guild_ids |-> {}, author_ids |-> {"u1", "u2"},
      reconnect_interval |-> 5, max_reconnect_attempts |-> 0] :
        d \in BOOLEAN, m \in BOOLEAN, a \in BOOLEAN}

\* the candidates json.loads may hand to _validate
CandidateSymbols == {<<>>, <<"B", "T", "C">>, <<"b", "t", "c">>, BTCUSDT}
CandidateRatios ==
    {None, Num(0), Num(50), Num(100), Num(150), Num(-50), Str("half"), JTrue, JFalse, NaN}
Candidates ==
    {Dict(a, sym, side, price, ratio, dca) :
        a \in {"ENTRY", "CANCEL", "MOVE_SL", "CLOSE", "INFO", "UNKNOWN", ""},
        sym \in CandidateSymbols,
        side \in {"", "LONG", "SHORT", "BUY"},
        price \in {None, Num(0), Num(95000)},
        ratio \in CandidateRatios,
        dca \in BOOLEAN}

NoTrial == [stage |-> "none"]

(* --------------------------- SignalRouter ----------------------------- *)
source(msg) ==
    [platform |-> "DISCORD", channel_id |-> msg.channel_id, guild_id |-> msg.guild_id,
     author_name |-> msg.author_name, message_id |-> msg.id]

\* handle_message returns: its locals go away
Return ==
    /\ rpc' = "idle"
    /\ cur' = NoCur
    /\ post' = NoPost
    /\ result' = NoResult
    /\ calls' = <<>>
    /\ obs' = NoObs

\* api_client.send_signal(content, dry_run, source), up to its first request
SendSignal(msg, content) ==
    /\ calls' = Append(calls, "send_signal")
    /\ delivered' = [delivered EXCEPT ![msg.id] = @ + 1]
    /\ post' = [url |-> send_signal_url(config.dry_run),
                payload |-> [kind |-> "message", message |-> content, source |-> source(msg)],
                attempt |-> 0, last_error |-> NoError, delay |-> 0, caller |-> "signal"]
    /\ obs' = NoObs
    /\ result' = NoResult
    /\ rpc' = "post"

SendTrade_always_posts(msg, d) ==
    /\ calls' = Append(calls, "send_trade")
    /\ delivered' = [delivered EXCEPT ![msg.id] = @ + 1]
    /\ obs' = NoObs
    /\ post' = [url |-> send_trade_url(config.multi_user_enabled),
                payload |-> [kind |-> "trade", trade |-> d, source |-> source(msg)],
                attempt |-> 0, last_error |-> NoError, delay |-> 0, caller |-> "trade"]
    /\ result' = NoResult
    /\ rpc' = "post"

\* api_client.send_trade(parsed, dry_run, source), up to its first request
SendTrade(msg, d) ==
    /\ calls' = Append(calls, "send_trade")
    /\ delivered' = [delivered EXCEPT ![msg.id] = @ + 1]
    /\ obs' = NoObs
    /\ IF config.dry_run
       THEN /\ result' = dry_run_result(d)
            /\ post' = NoPost
            /\ rpc' = "log_trade"
       ELSE /\ post' = [url |-> send_trade_url(config.multi_user_enabled),
                        payload |-> [kind |-> "trade", trade |-> d, source |-> source(msg)],
                        attempt |-> 0, last_error |-> NoError, delay |-> 0,
                        caller |-> "trade"]
            /\ result' = NoResult
            /\ rpc' = "post"

\* handle_message(msg), up to its first await
HandleMessage(msg) ==
    LET content == build_content(msg) IN
    /\ invoked' = [n |-> invoked.n + 1, id |-> msg.id,
                   outcome |-> IF ~passes_filters(config, msg) THEN "filtered"
                               ELSE IF Strip(content) = <<>> THEN "empty"
                               ELSE IF is_duplicate(processed_ids, msg.id) THEN "duplicate"
                               ELSE "accepted"]
    /\ UNCHANGED config
    /\ IF \/ ~passes_filters(config, msg)
          \/ Strip(content) = <<>>
          \/ is_duplicate(processed_ids, msg.id)
       THEN UNCHANGED <<processed_ids, rpc, cur, post, result, calls, delivered, obs>>
       ELSE /\ processed_ids' \in trim_dedup_set(processed_ids \cup {msg.id})
            /\ IF config.ai_enabled
               THEN /\ rpc' = "parse"
                    /\ cur' = [msg |-> msg, content |-> content, parsed |-> NoParsed,
                                reply |-> NoReply]
                    /\ UNCHANGED <<post, result, calls, delivered, obs>>
               ELSE IF _identify_type(content) \notin ACTIONABLE_TYPES
               THEN UNCHANGED <<rpc, cur, post, result, calls, delivered, obs>>
               ELSE /\ cur' = [msg |-> msg, content |-> content, parsed |-> NoParsed,
                                reply |-> NoReply]
                    /\ SendSignal(msg, content)

\* ai_parser.parse returns; the detector refines; _forward_signal picks its path
ParseReturns(reply) ==
    /\ rpc = "parse"
    /\ LET refined == refine(parse(reply), cur.content) IN
       /\ cur' = [cur EXCEPT !.parsed = refined.parsed, !.reply = reply]
       /\ CASE route(refined) = "skip" -> /\ rpc' = "skip"
                                          /\ UNCHANGED <<post, result, calls, delivered, obs>>
            [] route(refined) = "trade" -> SendTrade(cur.msg, refined.parsed.d)
            [] OTHER -> /\ rpc' = "fallback"
                        /\ UNCHANGED <<post, result, calls, delivered, obs>>
    /\ UNCHANGED <<connVars, config, trial, processed_ids, invoked>>

\* "AI identified as INFO ... skipping": _forward_signal returns, nothing is sent
Skip ==
    /\ rpc = "skip"
    /\ Return
    /\ UNCHANGED <<connVars, config, trial, processed_ids, delivered, invoked>>

\* the regex fallback of _forward_signal; the classifier's reply is not kept
\* beyond this point
Fallback ==
    /\ rpc = "fallback"
    /\ SendSignal(cur.msg, cur.content)
    /\ cur' = [cur EXCEPT !.reply = NoReply]
    /\ UNCHANGED <<connVars, config, trial, processed_ids, invoked>>

\* one attempt of _post_with_retry: the request and what comes back
PostResponse(resp) ==
    /\ rpc = "post"
    /\ LET seen == [obs EXCEPT !.requests = @ + 1, !.resp = resp,
                               !.urls = @ \cup {post.url},
                               !.only5xx = @ /\ resp.kind = "http"
                                             /\ resp.status \in 500..599]
           done == IF post.caller = "trade" THEN "log_trade" ELSE "log_signal"
       IN
       IF resp.kind = "http" /\ is_success(resp.status)
       THEN /\ result' = ExecutionResult(TRUE, 200, Take(resp.body.repr, SummaryLen),
                                         NoError, resp.body)
            /\ rpc' = done
            /\ obs' = seen
            /\ UNCHANGED post
       ELSE IF resp.kind = "http" /\ is_no_retry(resp.status)
       THEN /\ result' = ExecutionResult(FALSE, resp.status, <<>>, error_msg(resp.body),
                                         resp.body)
            /\ rpc' = done
            /\ obs' = seen
            /\ UNCHANGED post
       ELSE IF has_retry_left(post.attempt)
       THEN /\ post' = [post EXCEPT !.last_error = http_error(resp),
                                    !.delay = retry_delay(post.attempt)]
            /\ obs' = [seen EXCEPT !.sleeps = Append(@, retry_delay(post.attempt))]
            /\ rpc' = "sleep"
            /\ UNCHANGED result
       ELSE /\ post' = [post EXCEPT !.last_error = http_error(resp)]
            /\ result' = exhausted_result(http_error(resp))
            /\ rpc' = done
            /\ obs' = seen
    /\ cur' = [cur EXCEPT !.reply = NoReply]
    /\ UNCHANGED <<connVars, config, trial, processed_ids, calls, delivered, invoked>>

\* asyncio.sleep(delay) is over: the next attempt
SleepDone ==
    /\ rpc = "sleep"
    /\ post' = [post EXCEPT !.attempt = @ + 1, !.delay = 0]
    /\ rpc' = "post"
    /\ UNCHANGED <<connVars, config, trial, processed_ids, cur, result, calls, delivered, obs, invoked>>

\* send_trade's result is logged and _forward_signal returns
LogTrade ==
    /\ rpc = "log_trade"
    /\ IF after_send_trade = "idle"
       THEN Return
       ELSE /\ rpc' = after_send_trade
            /\ UNCHANGED <<cur, post, result, calls, obs>>
    /\ UNCHANGED <<connVars, config, trial, processed_ids, delivered, invoked>>

\* send_signal's result is logged and _forward_signal returns
LogSignal ==
    /\ rpc = "log_signal"
    /\ Return
    /\ UNCHANGED <<connVars, config, trial, processed_ids, delivered, invoked>>

(* ----------------------- the capture hook (JS) ------------------------ *)
\* the dict the hook builds from a MESSAGE_CREATE event
hook_data(ev) ==
    [id |-> ev.id, channel_id |-> ev.channel_id, guild_id |-> ev.guild_id,
     author_id |-> ev.author_id, author_name |-> ev.author_name,
     content |-> ev.content,
     embeds |-> [k \in 1..Len(ev.embeds) |->
                   [title |-> ev.embeds[k].title, description |-> ev.embeds[k].description]]]

\* one subscription's handler: push, then shift when the queue is over its ceiling
hook_push(queue, item) ==
    LET pushed == Append(queue, item)
    IN  IF Len(pushed) > QueueCap THEN Tail(pushed) ELSE pushed

\* every subscription's handler runs for the event
RECURSIVE hook_push_all(_, _, _)
hook_push_all(queue, item, subs) ==
    IF subs = 0 THEN queue ELSE hook_push_all(hook_push(queue, item), item, subs - 1)

\* the identifiers of the page's messages
PageIds == 1..Min(NumIds, MaxEvents)

\* the events of this run: the message with identifier i
PageEvent(i) ==
    Message(i, [channel_id |-> "chan1", guild_id |-> "g1", author_id |-> "u1",
                author_name |-> "chen",
                content |-> IF i = 1 THEN TextClose ELSE TextEntry, embeds |-> <<>>])

\* Discord dispatches MESSAGE_CREATE; a push on a deleted queue throws and is
\* ignored (the page is followed until main() has returned)
Emit ==
    /\ emitted < MaxEvents
    /\ mpc # "stopped"
    /\ \E i \in PageIds :
         LET item == [data |-> hook_data(PageEvent(i)), seq |-> emitted + 1] IN
         /\ emitted' = emitted + 1
         /\ jsQueue' = IF jsQueueDef THEN hook_push_all(jsQueue, item, jsSubs) ELSE jsQueue
         /\ captured' = IF jsSubs > 0 THEN captured \cup {emitted + 1} ELSE captured
    /\ UNCHANGED <<jsActive, jsQueueDef, jsSubs>>
    /\ UNCHANGED <<config, trial, routerVars, mainVars, listenVars, sideVars>>

(* ------------------------- main() and CdpClient ----------------------- *)
backoff_wait_uncapped(interval, n) == interval * n

\* min(reconnect_interval * attempt, 60)
backoff_wait(interval, n) == Min(interval * n, MaxWait)

ceiling_reached_never(max_attempts, n) == FALSE

ceiling_reached_at_the_limit(max_attempts, n) == max_attempts # 0 /\ n >= max_attempts

\* if max_attempts and attempt > max_attempts
ceiling_reached(max_attempts, n) == max_attempts # 0 /\ n > max_attempts

\* the except branch of main()'s loop: past the ceiling it breaks out of the
\* loop, otherwise it computes the wait and sleeps
Except ==
    /\ failures' = failures - 1
    /\ attempt' = attempt + 1
    /\ connection_status' = "reconnecting"
    /\ poll_failed' = FALSE
    /\ IF ceiling_reached(config.max_reconnect_attempts, attempt + 1)
       THEN /\ mpc' = "exit"
            /\ UNCHANGED wait
       ELSE /\ wait' = backoff_wait(config.reconnect_interval, attempt + 1)
            /\ mpc' = "backoff"
    /\ UNCHANGED ws

\* the top of main()'s loop
LoopTop ==
    /\ mpc = "top"
    /\ connection_status' = "connecting"
    /\ mpc' = "open"
    /\ UNCHANGED <<ws, attempt, wait, failures>>
    /\ UNCHANGED <<config, trial, routerVars, pageVars, listenVars, sideVars>>

\* connect(): target discovery and websockets.connect
ConnectOpen ==
    /\ mpc = "open"
    /\ \/ /\ ws' = TRUE
          /\ closed' = "none"
          /\ mpc' = "clear"
          /\ UNCHANGED <<attempt, connection_status, wait, failures, poll_failed>>
       \/ /\ failures > 0
          /\ Except
          /\ UNCHANGED closed
    /\ UNCHANGED heartbeat
    /\ UNCHANGED <<config, trial, routerVars, pageVars, listenVars>>

\* connect(): _evaluate_js(CLEAR_JS); its value is not looked at
ConnectClear ==
    /\ mpc = "clear"
    /\ \/ /\ jsActive' = FALSE
          /\ jsQueueDef' = FALSE
          /\ jsQueue' = <<>>
          /\ mpc' = "inject"
          /\ UNCHANGED <<jsSubs, emitted, captured>>
          /\ UNCHANGED <<ws, attempt, connection_status, wait, failures, poll_failed>>
       \/ /\ failures > 0
          /\ Except
          /\ UNCHANGED pageVars
    /\ UNCHANGED <<heartbeat, closed>>
    /\ UNCHANGED <<config, trial, routerVars, listenVars>>

\* the value of INJECT_JS: the hook is armed, or the page is not ready or the
\* script fails (an error string), or no value comes back (None)
inject_results(active) ==
    IF active THEN {"already_active"}
    ELSE {"ok", "webpack_not_found", "chunk_push_error", "dispatcher_not_found", "none"}

inject_accepted_any(res) == TRUE

\* connect() raises unless the hook reports ok or already_active
inject_accepted(res) == res \in {"ok", "already_active"}

reset_attempt_keeps(n) == n

\* attempt = 0 once connect() has returned
reset_attempt(n) == 0

start_heartbeat_on_every_connect(hb) == [hb EXCEPT !.task = "running", !.live = @ + 1]

\* if heartbeat_task is None or heartbeat_task.done(): create_task(heartbeat_loop)
start_heartbeat(hb) ==
    IF hb.task = "running" THEN hb ELSE [hb EXCEPT !.task = "running", !.live = @ + 1]

\* connect(): _evaluate_js(INJECT_JS); then main() resets attempt, sets the
\* label, starts the heartbeat task and enters listen()
ConnectInject ==
    /\ mpc = "inject"
    /\ \/ \E res \in inject_results(jsActive) :
            /\ (res # "ok" => failures > 0 \/ inject_accepted(res))
            /\ IF res = "ok"
               THEN /\ jsQueue' = <<>>
                    /\ jsQueueDef' = TRUE
                    /\ jsActive' = TRUE
                    /\ jsSubs' = jsSubs + 1
               ELSE UNCHANGED <<jsQueue, jsQueueDef, jsActive, jsSubs>>
            /\ IF inject_accepted(res)
               THEN /\ attempt' = reset_attempt(attempt)
                    /\ connection_status' = "connected"
                    /\ heartbeat' = start_heartbeat(heartbeat)
                    /\ mpc' = "listen"
                    /\ UNCHANGED <<ws, wait, failures, poll_failed>>
               ELSE /\ Except
                    /\ UNCHANGED heartbeat
       \/ /\ failures > 0
          /\ Except
          /\ UNCHANGED <<jsQueue, jsQueueDef, jsActive, jsSubs, heartbeat>>
    /\ UNCHANGED <<emitted, captured, closed>>
    /\ UNCHANGED <<config, trial, routerVars, listenVars>>

listen_enters_without_session(session) == TRUE

\* if not self._ws: raise ConnectionError
listen_enters(session) == session

\* listen() starts: it raises unless connect() has set the session
ListenEnter ==
    /\ mpc = "listen"
    /\ IF listen_enters(ws)
       THEN /\ mpc' = "poll"
            /\ UNCHANGED <<ws, attempt, connection_status, wait, failures, poll_failed>>
       ELSE Except
    /\ UNCHANGED <<heartbeat, closed>>
    /\ UNCHANGED <<config, trial, routerVars, pageVars, listenVars>>

\* what self._ws.close() may do
close_outcomes == {"ok", "raised"}

\* disconnect(): close() is tried when the session is set, its exception is
\* swallowed; the value is what the last close() did
disconnect(session, last, outcome) == IF session THEN outcome ELSE last

\* the sleep in the except branch is over; finally: disconnect()
BackoffDone ==
    /\ mpc = "backoff"
    /\ \E c \in close_outcomes : closed' = disconnect(ws, closed, c)
    /\ ws' = FALSE
    /\ mpc' = "top"
    /\ UNCHANGED <<attempt, connection_status, wait, failures>>
    /\ UNCHANGED <<heartbeat, poll_failed>>
    /\ UNCHANGED <<config, trial, routerVars, pageVars, listenVars>>

\* listen(): _evaluate_js(DRAIN_JS) splices the whole queue out, or the
\* socket is closed and ConnectionClosed goes up to main()
Poll ==
    /\ mpc = "poll"
    /\ \/ /\ jsQueue # <<>>
          /\ batch' = jsQueue
          /\ jsQueue' = <<>>
          /\ mpc' = "dispatch"
          /\ poll_failed' = FALSE
          /\ UNCHANGED <<ws, attempt, connection_status, wait, failures>>
       \/ /\ failures > 0
          /\ Except
          /\ UNCHANGED <<jsQueue, batch>>
    /\ UNCHANGED <<jsActive, jsQueueDef, jsSubs, emitted, captured, handed, last_handed>>
    /\ UNCHANGED <<heartbeat, closed>>
    /\ UNCHANGED <<config, trial, routerVars>>

\* how a poll may fail with the socket still open: _evaluate_js gets no
\* answer within its deadline or a CDP error and returns None, or the poll
\* raises something other than ConnectionClosed
poll_failures == {"timeout", "cdp_error", "exception"}

after_poll_failure_raises(kind) == "raise"

\* None is skipped by "if raw"; except Exception logs "Error in poll loop";
\* either way listen() sleeps and polls again
after_poll_failure(kind) == "poll"

\* listen(): a poll that fails with the socket still open
PollFails ==
    /\ mpc = "poll"
    /\ failures > 0
    /\ \E kind \in poll_failures :
         IF after_poll_failure(kind) = "poll"
         THEN /\ failures' = failures - 1
              /\ poll_failed' = TRUE
              /\ UNCHANGED <<ws, mpc, attempt, connection_status, wait>>
         ELSE Except
    /\ UNCHANGED <<heartbeat, closed>>
    /\ UNCHANGED <<config, trial, routerVars, pageVars, listenVars>>

callback_not_awaited == TRUE

\* listen() awaits the callback before it takes the next message
callback_returned == rpc = "idle"

next_in_batch_last(b) == Len(b)

\* for msg_json in messages
next_in_batch(b) == 1

\* listen(): await callback(msg) for the next drained message
Dispatch ==
    /\ mpc = "dispatch"
    /\ batch # <<>>
    /\ callback_returned
    /\ LET k == next_in_batch(batch) IN
       /\ HandleMessage(batch[k].data)
       /\ batch' = SubSeq(batch, 1, k - 1) \o SubSeq(batch, k + 1, Len(batch))
       /\ handed' = handed \cup {batch[k].seq}
       /\ last_handed' = batch[k].seq
    /\ UNCHANGED <<pageVars, mainVars, sideVars, trial>>

on_callback_error_raises == "raise"

\* except Exception around "await callback(msg)": logger.exception, next message
on_callback_error == "logged"

\* listen(): the callback raises while it handles the message
HandlerRaises ==
    /\ mpc = "dispatch"
    /\ rpc # "idle"
    /\ invoked' = [invoked EXCEPT !.outcome = "raised"]
    /\ Return
    /\ IF on_callback_error = "logged"
       THEN UNCHANGED <<mainVars, poll_failed>>
       ELSE Except
    /\ UNCHANGED <<heartbeat, closed>>
    /\ UNCHANGED <<config, trial, processed_ids, delivered, pageVars, listenVars>>

\* listen(): the batch is done; asyncio.sleep(0.5) and the next poll
BatchDone ==
    /\ mpc = "dispatch"
    /\ batch = <<>>
    /\ callback_returned
    /\ mpc' = "poll"
    /\ UNCHANGED <<ws, attempt, connection_status, wait, failures>>
    /\ UNCHANGED <<config, trial, routerVars, pageVars, listenVars, sideVars>>

\* what one send_heartbeat may meet: HTTP 200, another status, an exception
heartbeat_outcomes == {"ok", "rejected", "exception"}

after_heartbeat_dies(outcome) == IF outcome = "ok" THEN "running" ELSE "done"

\* heartbeat_loop: send_heartbeat returns False and the loop's own except
\* catches what is raised; then asyncio.sleep(HEARTBEAT_INTERVAL) and again
after_heartbeat(outcome) == "running"

\* status_fn(): main()'s connection_status when the report is built
get_status == connection_status

\* heartbeat_loop: one send_heartbeat(status_fn())
Heartbeat ==
    /\ heartbeat.task = "running"
    /\ \E outcome \in heartbeat_outcomes :
         heartbeat' = [task |-> after_heartbeat(outcome), status |-> get_status,
                       ok |-> outcome = "ok",
                       live |-> IF after_heartbeat(outcome) = "running"
                                THEN heartbeat.live ELSE heartbeat.live - 1]
    /\ UNCHANGED <<poll_failed, closed>>
    /\ UNCHANGED <<config, trial, routerVars, pageVars, mainVars, listenVars>>

\* where main() and what it awaits can be interrupted
suspension_points == {"open", "clear", "inject", "poll", "dispatch", "backoff"}

\* the shutdown signal: what main() awaits is cancelled and the loop is left
Shutdown ==
    /\ mpc \in suspension_points
    /\ mpc' = "exit"
    /\ IF rpc = "idle"
       THEN UNCHANGED <<rpc, cur, post, result, calls, obs, invoked>>
       ELSE /\ invoked' = [invoked EXCEPT !.outcome = "cancelled"]
            /\ Return
    /\ batch' = <<>>
    /\ UNCHANGED <<ws, attempt, connection_status, wait, failures>>
    /\ UNCHANGED <<handed, last_handed, sideVars>>
    /\ UNCHANGED <<config, trial, processed_ids, delivered, pageVars>>

cleanup_task_forgets(task) == task

\* if heartbeat_task and not heartbeat_task.done(): heartbeat_task.cancel()
cleanup_task(task) == IF task = "running" THEN "cancelled" ELSE task

\* the loop is left: finally: disconnect(), then the heartbeat task is cancelled
ExitDisconnect ==
    /\ mpc = "exit"
    /\ \E c \in close_outcomes : closed' = disconnect(ws, closed, c)
    /\ ws' = FALSE
    /\ heartbeat' = [heartbeat EXCEPT !.task = cleanup_task(@),
                                      !.live = IF cleanup_task(heartbeat.task) = heartbeat.task
                                               THEN @ ELSE @ - 1]
    /\ mpc' = "stopped"
    /\ UNCHANGED <<attempt, connection_status, wait, failures, poll_failed>>
    /\ UNCHANGED <<config, trial, routerVars, pageVars, listenVars>>

(* --------------------------- specifications --------------------------- *)
InitRouterVars ==
    /\ processed_ids = {}
    /\ rpc = "idle"
    /\ cur = NoCur
    /\ post = NoPost
    /\ result = NoResult
    /\ calls = <<>>
    /\ delivered = [i \in Ids |-> 0]
    /\ obs = NoObs
    /\ invoked = [n |-> 0, id |-> 0, outcome |-> ""]

NoHeartbeat == [task |-> "none", status |-> "", ok |-> TRUE, live |-> 0]

InitConnVars ==
    /\ jsActive = FALSE
    /\ jsQueueDef = FALSE
    /\ jsQueue = <<>>
    /\ jsSubs = 0
    /\ emitted = 0
    /\ captured = {}
    /\ ws = FALSE
    /\ mpc = "top"
    /\ attempt = 0
    /\ connection_status = "starting"
    /\ wait = 0
    /\ batch = <<>>
    /\ handed = {}
    /\ last_handed = 0
    /\ heartbeat = NoHeartbeat
    /\ poll_failed = FALSE
    /\ closed = "none"

\* the monitor as main() runs it
Init ==
    /\ config \in Configs
    /\ InitRouterVars
    /\ InitConnVars
    /\ failures = MaxFailures
    /\ trial = NoTrial

Next ==
    \/ Emit
    \/ LoopTop
    \/ ConnectOpen
    \/ ConnectClear
    \/ ConnectInject
    \/ ListenEnter
    \/ BackoffDone
    \/ Poll
    \/ Dispatch
    \/ BatchDone
    \/ \E reply \in Replies : ParseReturns(reply)
    \/ Skip
    \/ Fallback
    \/ \E resp \in Responses : PostResponse(resp)
    \/ SleepDone
    \/ LogTrade
    \/ LogSignal

Spec == Init /\ [][Next]_vars

\* the router driven message by message: handle_message called with any event
InitRouter == Init

Invoke ==
    /\ rpc = "idle"
    /\ invoked.n < MaxCalls
    /\ \E msg \in Messages : HandleMessage(msg)
    /\ UNCHANGED <<connVars, trial>>

NextRouter ==
    \/ Invoke
    \/ \E reply \in Replies : ParseReturns(reply)
    \/ Skip
    \/ Fallback
    \/ \E resp \in Responses : PostResponse(resp)
    \/ SleepDone
    \/ LogTrade
    \/ LogSignal

SpecRouter == InitRouter /\ [][NextRouter]_vars

(* ----------------- main() whole, with the regex router ---------------- *)
\* the CDP settings: the default (retry for ever) with a long interval, and
\* a ceiling of one attempt
CdpSettings ==
    {[reconnect_interval |-> 40, max_reconnect_attempts |-> 0],
     [reconnect_interval |-> 5, max_reconnect_attempts |-> 1]}

\* ai.enabled false: the router forwards by message type
MainConfigs ==
    {[dry_run |-> FALSE, multi_user_enabled |-> FALSE, ai_enabled |-> FALSE,
      channel_ids |-> {"chan1"}, guild_ids |-> {}, author_ids |-> {"u1", "u2"},
      reconnect_interval |-> c.reconnect_interval,
      max_reconnect_attempts |-> c.max_reconnect_attempts] : c \in CdpSettings}

\* the API answers with success, a client error, or not at all
MainResponses == {[kind |-> "exception"], Http(200, BodyLong), Http(400, BodyError)}

InitMain ==
    /\ config \in MainConfigs
    /\ InitRouterVars
    /\ InitConnVars
    /\ failures = MaxMainFailures
    /\ trial = NoTrial

NextMain ==
    \/ Emit
    \/ LoopTop
    \/ ConnectOpen
    \/ ConnectClear
    \/ ConnectInject
    \/ ListenEnter
    \/ BackoffDone
    \/ Poll
    \/ PollFails
    \/ Dispatch
    \/ HandlerRaises
    \/ BatchDone
    \/ \E resp \in MainResponses : PostResponse(resp)
    \/ SleepDone
    \/ LogSignal
    \/ Heartbeat
    \/ Shutdown
    \/ ExitDisconnect

SpecMain == InitMain /\ [][NextMain]_vars

(* ---------------------- listen() called directly ---------------------- *)
\* a CdpClient that connect() has set up, or a fresh one; its owner may call
\* disconnect() and then calls listen()
InitListen ==
    /\ config \in MainConfigs
    /\ InitRouterVars
    /\ ws \in BOOLEAN
    /\ jsActive = ws
    /\ jsQueueDef = ws
    /\ jsQueue = <<>>
    /\ jsSubs = IF ws THEN 1 ELSE 0
    /\ emitted = 0
    /\ captured = {}
    /\ mpc = "listen"
    /\ attempt = 0
    /\ connection_status = IF ws THEN "connected" ELSE "starting"
    /\ wait = 0
    /\ failures = MaxMainFailures
    /\ batch = <<>>
    /\ handed = {}
    /\ last_handed = 0
    /\ heartbeat = IF ws THEN start_heartbeat(NoHeartbeat) ELSE NoHeartbeat
    /\ poll_failed = FALSE
    /\ closed = "none"
    /\ trial = [stage |-> "client", disconnects |-> 0]

close_error_propagates == FALSE

\* except Exception: pass, around self._ws.close()
close_error_swallowed == TRUE

\* disconnect() called by the owner of the client before it calls listen()
Disconnect ==
    /\ mpc = "listen"
    /\ trial.disconnects < MaxDisconnects
    /\ trial' = [trial EXCEPT !.disconnects = @ + 1]
    /\ \E c \in close_outcomes :
         IF ws /\ c = "raised" /\ ~close_error_swallowed
         THEN /\ mpc' = "raised"
              /\ closed' = c
              /\ UNCHANGED ws
         ELSE /\ closed' = disconnect(ws, closed, c)
              /\ ws' = FALSE
              /\ UNCHANGED mpc
    /\ UNCHANGED <<attempt, connection_status, wait, failures, heartbeat, poll_failed>>
    /\ UNCHANGED <<config, routerVars, pageVars, listenVars>>

NextListen ==
    \/ Emit
    \/ Disconnect
    \/ ListenEnter
    \/ Poll
    \/ PollFails
    \/ Dispatch
    \/ HandlerRaises
    \/ BatchDone
    \/ \E resp \in MainResponses : PostResponse(resp)
    \/ SleepDone
    \/ LogSignal

SpecListen == InitListen /\ [][NextListen]_vars

(* ------------- handle_message's filters driven directly -------------- *)
\* the allow-lists: channel and author always set, the guild list set or not
FilterConfigs ==
    {[dry_run |-> FALSE, multi_user_enabled |-> FALSE, ai_enabled |-> FALSE,
      channel_ids |-> {"chan1"}, guild_ids |-> g, author_ids |-> {"u1", "u2"},
      reconnect_interval |-> 5, max_reconnect_attempts |-> 0] : g \in {{}, {"g1"}}}

\* events that pass or miss each allow-list, with text in the body, in the
\* embeds, in both, or nowhere; and events that pass, one for each kind of
\* text _identify_type tells apart
FilterTemplates ==
    { [channel_id |-> "chan1", guild_id |-> "g1", author_id |-> "u1", author_name |-> "chen",
       content |-> TextEntry,
       embeds |-> << [title |-> TextChat, description |-> TextClose] >>],
      [channel_id |-> "chan2", guild_id |-> "g1", author_id |-> "u1", author_name |-> "chen",
       content |-> TextEntry,
       embeds |-> << [title |-> TextChat, description |-> TextClose] >>],
      [channel_id |-> "chan1", guild_id |-> "g2", author_id |-> "u1", author_name |-> "chen",
       content |-> TextEntry, embeds |-> <<>>],
      [channel_id |-> "chan1", guild_id |-> "g1", author_id |-> "u3", author_name |-> "lin",
       content |-> TextEntry, embeds |-> <<>>],
      [channel_id |-> "chan1", guild_id |-> "g1", author_id |-> "u1", author_name |-> "chen",
       content |-> TextBlank, embeds |-> << [title |-> <<>>, description |-> <<>>] >>],
      [channel_id |-> "chan1", guild_id |-> "g1", author_id |-> "u2", author_name |-> "bot",
       content |-> <<>>,
       embeds |-> << [title |-> <<>>, description |-> TextEntry],
                     [title |-> TextChat, description |-> <<>>] >>],
      [channel_id |-> "chan2", guild_id |-> "g2", author_id |-> "u3", author_name |-> "lin",
       content |-> <<>>, embeds |-> <<>>] }
    \cup
    { [channel_id |-> "chan1", guild_id |-> "g1", author_id |-> "u1", author_name |-> "chen",
       content |-> text, embeds |-> <<>>] :
         text \in {TextCancel, TextInfo, TextInfoModify, TextModify, TextChat} }

FilterMessages == {Message(i, t) : i \in Ids, t \in FilterTemplates}

InitFilter ==
    /\ config \in FilterConfigs
    /\ InitRouterVars
    /\ InitConnVars
    /\ failures = MaxFailures
    /\ trial = [stage |-> "filter", history |-> <<>>]

\* handle_message called with any of the events; the harness keeps the list
InvokeFiltered ==
    /\ rpc = "idle"
    /\ Len(trial.history) < MaxFilterCalls
    /\ \E msg \in FilterMessages :
         /\ HandleMessage(msg)
         /\ trial' = [trial EXCEPT !.history = Append(@, msg)]
    /\ UNCHANGED connVars

NextFilter ==
    \/ InvokeFiltered
    \/ \E resp \in MainResponses : PostResponse(resp)
    \/ SleepDone
    \/ LogSignal

SpecFilter == InitFilter /\ [][NextFilter]_vars

(* ------------------ parse() against scripted answers ----------------- *)
\* what generate_content may do on a call: raise a rate-limit error (429 /
\* RESOURCE_EXHAUSTED in the message), raise something else, answer text that
\* is not JSON, answer a dict that _validate accepts or one it rejects
ScriptAnswers ==
    { [kind |-> "rate_limit"], [kind |-> "exception"], [kind |-> "bad_json"],
      [kind |-> "json", d |-> Dict("ENTRY", BTCUSDT, "SHORT", Num(70900), None, FALSE)],
      [kind |-> "json", d |-> Dict("CLOSE", BTCUSDT, "", None, Num(0), FALSE)] }

Scripts == UNION {[1..n -> ScriptAnswers] : n \in 1..MaxScript}

\* except Exception catches the rate-limit error like any other
as_reply(answer) == IF answer.kind = "rate_limit" THEN [kind |-> "exception"] ELSE answer

parse_calls_while_failing(client, script, max_retries) ==
    IF ~client THEN 0
    ELSE LET failing == {k \in 1..Len(script) : \A j \in 1..k : ~parse(as_reply(script[j])).some}
         IN  Min(Min(Cardinality(failing) + 1, Len(script)), max_retries)

\* parse() calls generate_content once, and not at all without a client
parse_calls(client, script, max_retries) == IF client THEN 1 ELSE 0

\* parse() has no sleep
parse_sleeps(client, script, retry_delays) == <<>>

InitParse ==
    /\ config \in {c \in Configs : c.ai_enabled /\ ~c.dry_run /\ ~c.multi_user_enabled}
    /\ InitRouterVars
    /\ InitConnVars
    /\ failures = MaxFailures
    /\ \E client \in BOOLEAN, script \in Scripts :
         trial = [stage |-> "script", client |-> client, script |-> script,
                  max_retries |-> AI_MAX_RETRIES, retry_delays |-> AI_RETRY_DELAYS]

\* parse(content) with the model answering as scripted
Parse ==
    /\ trial.stage = "script"
    /\ LET n == parse_calls(trial.client, trial.script, trial.max_retries)
       IN  trial' = [stage |-> "parsed", client |-> trial.client, script |-> trial.script,
                     max_retries |-> trial.max_retries, retry_delays |-> trial.retry_delays,
                     calls |-> n,
                     sleeps |-> parse_sleeps(trial.client, trial.script, trial.retry_delays),
                     returned |-> IF n = 0 THEN NoParsed
                                  ELSE parse(as_reply(trial.script[n]))]
    /\ UNCHANGED <<config, routerVars, connVars>>

NextParse == Parse

SpecParse == InitParse /\ [][NextParse]_vars

(* ------------------- _validate applied to candidates ------------------ *)
\* str.upper() on the symbols used here
UpperChar(c) == CASE c = "b" -> "B" [] c = "t" -> "T" [] c = "c" -> "C" [] OTHER -> c
Upper(symbol) == [k \in 1..Len(symbol) |-> UpperChar(symbol[k])]

InitValidate ==
    /\ config \in Configs
    /\ InitRouterVars
    /\ InitConnVars
    /\ failures = MaxFailures
    /\ \E c \in Candidates : trial = [stage |-> "candidate", candidate |-> c]

\* _validate(candidate), and _validate of the same candidate with its symbol
\* in upper case
Validate ==
    /\ trial.stage = "candidate"
    /\ LET v == validate(trial.candidate)
           u == validate([trial.candidate EXCEPT !.symbol = Upper(@)])
       IN  trial' = [stage |-> "validated", candidate |-> trial.candidate,
                     ok |-> v.ok, parsed |-> v.parsed,
                     upper_ok |-> u.ok, upper_parsed |-> u.parsed]
    /\ UNCHANGED <<config, routerVars, connVars>>

\* _validate applied again to the dict the first call left
Revalidate ==
    /\ trial.stage = "validated"
    /\ LET v == validate(trial.parsed)
       IN  trial' = [trial EXCEPT !.stage = "revalidated"] @@
                    [again_ok |-> v.ok, again_parsed |-> v.parsed]
    /\ UNCHANGED <<config, routerVars, connVars>>

NextValidate ==
    \/ Validate
    \/ Revalidate

SpecValidate == InitValidate /\ [][NextValidate]_vars

(* ============================== claims ================================ *)
Logging == rpc \in {"log_trade", "log_signal"}

\* C1: one handle_message invocation calls the Delivery Client (send_trade or
\* send_signal) at most once, whatever the classifier and the API answer.
C1_AtMostOneDeliveryCall == Len(calls) <= 1

C1_Witness ==
    /\ calls = <<"send_trade">>
    /\ rpc = "log_trade"
    /\ result.error.kind = "exhausted"

\* C2 as stated: an identifier recorded once never reaches the Delivery Client again.
C2_DeliveredAtMostOncePerId == \A i \in Ids : delivered[i] <= 1

\* C2 amended: an event whose identifier is in the seen-set when handle_message
\* is called is dropped: nothing is classified, delivered or recorded for it.
C2_SeenIdIsDropped ==
    [][(invoked'.n # invoked.n /\ invoked'.id \in processed_ids)
         => /\ rpc' = "idle"
            /\ cur' = cur
            /\ delivered' = delivered
            /\ processed_ids' = processed_ids]_vars

C2_Witness ==
    /\ invoked.outcome = "duplicate"
    /\ delivered[invoked.id] = 1
    /\ rpc = "idle"

TradeActionInvariant(d) ==
    /\ d.action \in {"ENTRY", "CANCEL", "MOVE_SL", "CLOSE"}
    /\ d.symbol # <<>>
    /\ EndsWith(d.symbol, USDT)
    /\ (d.close_ratio.t # "none"
          => d.close_ratio.t = "num" /\ d.close_ratio.v > 0 /\ d.close_ratio.v <= 100)
    /\ (d.action = "ENTRY" => Truthy(d.entry_price))
    /\ (d.action = "ENTRY" /\ ~d.is_dca => d.side \in {"LONG", "SHORT"})

\* C3: every structured action handed to send_trade satisfies the TradeAction
\* invariant (actionable action, symbol ending in USDT, close_ratio in (0,1],
\* ENTRY with entry_price and, unless is_dca, a side).
C3_SentTradeSatisfiesInvariant ==
    "send_trade" \in {calls[k] : k \in 1..Len(calls)} => TradeActionInvariant(cur.parsed.d)

\* C4: a 4xx response ends _post_with_retry at once: no sleep and no request
\* follow it, and the failure carries the status code and the server's error text.
C4_ClientErrorEndsTheCall ==
    (obs.resp.kind = "http" /\ obs.resp.status \in 400..499)
      => /\ Logging
         /\ result.success = FALSE
         /\ result.status_code = obs.resp.status
         /\ result.error.kind = "server"
         /\ (obs.resp.body.isDict /\ obs.resp.body.error.t # "none"
               => result.error.text = obs.resp.body.error)
         /\ (~(obs.resp.body.isDict /\ obs.resp.body.error.t # "none")
               => result.error.text = Str(obs.resp.body.repr))
         /\ obs.requests = post.attempt + 1
         /\ Len(obs.sleeps) = obs.requests - 1
         /\ (post.attempt = 0 => obs.requests = 1 /\ obs.sleeps = <<>>)

C4_Witness ==
    /\ Logging
    /\ obs.requests = 3
    /\ obs.sleeps = <<1, 3>>
    /\ result.status_code = 404

\* C5: with a 5xx response on every attempt, _post_with_retry issues exactly 3
\* requests, sleeps 1 then 3 and not after the last attempt, and the failure
\* reports 3 attempts and the last error.
C5_ServerErrorsExhaustRetries ==
    (Logging /\ obs.requests > 0 /\ obs.only5xx)
      => /\ obs.requests = 3
         /\ obs.sleeps = <<1, 3>>
         /\ result.success = FALSE
         /\ result.error.kind = "exhausted"
         /\ result.error.attempts = 3
         /\ result.error.last.kind = "http"
         /\ result.error.last.status = obs.resp.status
         /\ result.error.last.text = Take(obs.resp.body.repr, 200)

C5_Witness ==
    /\ Logging
    /\ obs.only5xx
    /\ obs.requests = 3
    /\ obs.resp.status = 503
    /\ result.error.kind = "exhausted"

\* C6: any 2xx response makes _post_with_retry return success at once, with the
\* truncated body as summary.
C6_Any2xxIsSuccess ==
    (obs.resp.kind = "http" /\ obs.resp.status \in 200..299)
      => /\ Logging
         /\ result.success = TRUE
         /\ result.summary = Take(obs.resp.body.repr, 300)

\* C7: send_trade under dry_run issues no request and returns success with the
\* dry-run marker in its summary.
C7_DryRunTradeIssuesNoRequest ==
    (config.dry_run /\ calls = <<"send_trade">>)
      => /\ obs.requests = 0
         /\ rpc = "log_trade"
         /\ result.success = TRUE
         /\ result.summary # <<>>
         /\ Head(result.summary) = "[DRY RUN]"

C7_Witness ==
    /\ config.dry_run
    /\ config.multi_user_enabled
    /\ calls = <<"send_trade">>
    /\ rpc = "log_trade"

\* C8: a structured action is POSTed to the broadcast endpoint iff
\* multi_user_enabled and else to execute-trade; raw text to the parse endpoint
\* iff dry_run and else to execute-signal.
C8_EndpointSelection ==
    \A u \in obs.urls :
        /\ post.payload.kind \in {"trade", "message"}
        /\ (post.payload.kind = "trade"
              => /\ ~config.dry_run
                 /\ calls = <<"send_trade">>
                 /\ u = IF config.multi_user_enabled
                        THEN <<"http://localhost:8080", "/api/broadcast-trade">>
                        ELSE <<"http://localhost:8080", "/api/execute-trade">>)
        /\ (post.payload.kind = "message"
              => /\ calls = <<"send_signal">>
                 /\ u = IF config.dry_run
                        THEN <<"http://localhost:8080", "/api/parse-signal">>
                        ELSE <<"http://localhost:8080", "/api/execute-signal">>)

C8_Witness ==
    /\ <<"http://localhost:8080", "/api/broadcast-trade">> \in obs.urls
    /\ post.payload.kind = "trade"


\* C9: events are handed to handle_message in the order the hook queued them,
\* and one at a time: when handle_message starts for an event, the Delivery
\* Client call of the previous one has returned, and every request issued
\* belongs to the message handed last.
C9_InOrderOneAtATime ==
    [][/\ (invoked'.n # invoked.n
             => /\ rpc = "idle"
                /\ calls = <<>>
                /\ obs.requests = 0
                /\ last_handed' >= last_handed)
       /\ (obs'.requests > obs.requests
             => /\ post.payload.source.message_id = invoked.id
                /\ cur.msg.id = invoked.id)]_vars

C9_Witness ==
    /\ handed = {1, 2}
    /\ last_handed = 2
    /\ delivered[1] = 1
    /\ delivered[2] = 1
    /\ rpc = "sleep"
    /\ obs.requests = 2

InQueue(q, s) == \E k \in 1..Len(q) : q[k].seq = s

\* C10: no event the hook captured is lost: it is in the capture queue, in the
\* drained batch, or has been passed to the callback.
C10_NoCapturedEventLost ==
    \A s \in captured : s \in handed \/ InQueue(jsQueue, s) \/ InQueue(batch, s)

\* C11: a structured action sent for an accepted message (not a dry run) is
\* acknowledged by the downstream API: while the API's answers are transient
\* failures (5xx, no answer) the Delivery Client call made for the action does
\* not come back without a success, so an API that answers success in the end
\* is asked until it does.
C11_TradeIsAcknowledged ==
    (/\ rpc = "log_trade"
     /\ ~config.dry_run
     /\ invoked.outcome = "accepted"
     /\ (obs.resp.kind = "exception" \/ obs.only5xx))
      => result.success

(* ---- the classifier's reply, as the router sees it after parse() ---- *)
ReplyKnown == cur.reply.kind # "none"
ReplyFailed ==
    \/ cur.reply.kind \in {"exception", "bad_json"}
    \/ cur.reply.kind = "json" /\ ~validate(cur.reply.d).ok
ReplyInfo == cur.reply.kind = "json" /\ cur.reply.d.action = "INFO"
ReplyAction ==
    /\ cur.reply.kind = "json"
    /\ validate(cur.reply.d).ok
    /\ cur.reply.d.action \in {"ENTRY", "CANCEL", "MOVE_SL", "CLOSE"}
HasClose(text) == \E k \in 1..Len(close_keywords) : Contains(text, close_keywords[k])
HasHold(text) == \E k \in 1..Len(holding_keywords) : Contains(text, holding_keywords[k])
\* the structured action the running send_trade call was given
SentTrade ==
    IF config.dry_run THEN result.summary[2] ELSE post.payload.trade

\* C12: a validated ENTRY, CANCEL, MOVE_SL or CLOSE result is handed to
\* send_trade as validation left it: same action, same fields, no refinement
\* stamp, whether or not the text holds close keywords.
C12_ValidatedActionUnrefined ==
    ReplyAction
      => /\ calls = <<"send_trade">>
         /\ cur.parsed.some
         /\ cur.parsed.d.action = cur.reply.d.action
         /\ cur.parsed.d.refinement = ""
         /\ [cur.parsed.d EXCEPT !.symbol = <<>>] = [cur.reply.d EXCEPT !.symbol = <<>>]
         /\ cur.parsed.d.symbol \in {cur.reply.d.symbol, cur.reply.d.symbol \o USDT}
         /\ SentTrade = cur.parsed.d

C12_Witness ==
    /\ ReplyAction
    /\ cur.reply.d.action = "ENTRY"
    /\ HasClose(cur.content)
    /\ ~HasHold(cur.content)
    /\ rpc = "post"

\* C13: primary INFO or failure, a close keyword and no hold keyword in the
\* text: the action handed to send_trade is CLOSE with a refinement note; its
\* symbol is the INFO result's own symbol when it had one, BTCUSDT otherwise.
C13_EscalatedToClose ==
    (ReplyKnown /\ (ReplyFailed \/ ReplyInfo) /\ HasClose(cur.content) /\ ~HasHold(cur.content))
      => /\ calls = <<"send_trade">>
         /\ cur.parsed.some
         /\ cur.parsed.d.action = "CLOSE"
         /\ cur.parsed.d.refinement # ""
         /\ cur.parsed.d.symbol = IF ReplyInfo /\ cur.reply.d.symbol # <<>>
                                  THEN cur.reply.d.symbol
                                  ELSE BTCUSDT
         /\ SentTrade = cur.parsed.d

C13_Witness ==
    /\ ReplyInfo
    /\ cur.reply.d.symbol = <<>>
    /\ cur.content = <<"zhi", "ying", "chu", "ju">>
    /\ rpc = "post"
    /\ post.payload.trade.symbol = BTCUSDT
    /\ post.payload.trade.action = "CLOSE"

C15_UnresolvedGoesToSendSignal ==
    (ReplyKnown /\ (~cur.parsed.some \/ cur.parsed.d.action \in {"INFO", "UNKNOWN"}))
      => rpc = "fallback"

\* C15 amended: a result that is still a failure after the refiner sends the
\* raw text through send_signal; an INFO the refiner left alone sends nothing.
C15_FailureGoesToSendSignal ==
    /\ (ReplyKnown /\ ~cur.parsed.some) => (rpc = "fallback" /\ calls = <<>>)
    /\ (ReplyKnown /\ cur.parsed.some /\ cur.parsed.d.action = "INFO")
         => (rpc = "skip" /\ calls = <<>>)
    /\ rpc = "skip" => (cur.parsed.some /\ cur.parsed.d.action = "INFO" /\ calls = <<>>)
    /\ calls = <<"send_signal">>
         => /\ post.payload.kind = "message"
            /\ post.payload.message = cur.content
            /\ ~cur.parsed.some

C15_Witness ==
    /\ config.ai_enabled
    /\ calls = <<"send_signal">>
    /\ rpc = "log_signal"
    /\ result.success

\* what the router does with a classifier failure, from the text alone
FailureOutcome(content) ==
    IF HasClose(content) /\ ~HasHold(content)
    THEN [some |-> TRUE,
          d |-> [action |-> "CLOSE", symbol |-> BTCUSDT, side |-> "", entry_price |-> None,
                 close_ratio |-> None, is_dca |-> FALSE,
                 refinement |-> "NONE->CLOSE by TradeActionDetector"]]
    ELSE [some |-> FALSE]

FailureHandled ==
    /\ cur.parsed = FailureOutcome(cur.content)
    /\ IF cur.parsed.some
       THEN calls = <<"send_trade">> /\ SentTrade = cur.parsed.d
       ELSE calls = <<>> /\ rpc = "fallback"

\* C20 as stated: an error, malformed JSON and a rejected candidate are handled
\* alike, and a well-formed INFO or UNKNOWN is not handled as a failure.
C20_InfoAndUnknownAreNotFailures ==
    /\ ReplyFailed => FailureHandled
    /\ (cur.reply.kind = "json" /\ cur.reply.d.action \in {"INFO", "UNKNOWN"})
         => ~FailureHandled

\* C20 amended: an error, malformed JSON and a rejected candidate are handled
\* alike; a well-formed INFO is not handled as a failure, a well-formed
\* UNKNOWN is rejected by validation and handled as one.
C20_FailuresHandledAlike ==
    /\ ReplyFailed => FailureHandled
    /\ ReplyInfo => ~FailureHandled
    /\ (cur.reply.kind = "json" /\ cur.reply.d.action = "UNKNOWN") => FailureHandled

C20_Witness ==
    /\ cur.reply.kind = "bad_json"
    /\ rpc = "fallback"
    /\ cur.content # <<>>

(* ------------------------- claims on _validate ------------------------ *)
Validated == trial.stage \in {"validated", "revalidated"}
\* entry_price is present and non-zero
HasPrice(d) == d.entry_price.t = "num" /\ d.entry_price.v # 0
EntryFieldsOk(d) ==
    IF d.is_dca THEN HasPrice(d)
    ELSE d.side \in {"LONG", "SHORT"} /\ HasPrice(d)

\* C16 as stated: an ENTRY candidate is accepted iff its entry_price is
\* present and non-zero and, unless is_dca, its side is LONG or SHORT.
C16_EntryAcceptedIffFields ==
    (Validated /\ trial.candidate.action = "ENTRY")
      => (trial.ok <=> EntryFieldsOk(trial.candidate))

\* C16 amended: the same, for ENTRY candidates that carry a symbol; without a
\* symbol the candidate is rejected whatever its side and entry_price.
C16_EntryWithSymbolAcceptedIffFields ==
    (Validated /\ trial.candidate.action = "ENTRY")
      => /\ (trial.candidate.symbol # <<>> => (trial.ok <=> EntryFieldsOk(trial.candidate)))
         /\ (trial.candidate.symbol = <<>> => ~trial.ok)

C16_Witness ==
    /\ Validated
    /\ trial.candidate.action = "ENTRY"
    /\ trial.candidate.is_dca
    /\ trial.candidate.side = "BUY"
    /\ trial.candidate.entry_price = Num(95000)
    /\ trial.ok

\* close_ratio is a number in (0,1] (hundredths)
RatioInRange(r) == r.t = "num" /\ r.v > 0 /\ r.v <= 100

\* C17: a CLOSE candidate (with a symbol) is rejected iff close_ratio is present
\* and is not a number in (0,1]; an absent or null close_ratio is accepted.
C17_CloseRejectedIffBadRatio ==
    (Validated /\ trial.candidate.action = "CLOSE" /\ trial.candidate.symbol # <<>>)
      => (~trial.ok <=> (trial.candidate.close_ratio.t # "none"
                          /\ ~RatioInRange(trial.candidate.close_ratio)))

\* C18: symbol canonicalization is idempotent (validating the validated dict
\* again leaves the symbol as it is) and case-insensitive (a symbol and the
\* same symbol in upper case get the same canonical form).
C18_CanonicalSymbol ==
    /\ (trial.stage = "revalidated" /\ trial.ok)
         => trial.again_parsed.symbol = trial.parsed.symbol
    /\ (Validated /\ trial.ok /\ trial.candidate.action # "INFO")
         => trial.upper_parsed.symbol = trial.parsed.symbol

\* C19: a candidate is accepted only if its action is one of ENTRY, CANCEL,
\* MOVE_SL, CLOSE, INFO and, unless INFO, it has a non-empty symbol; INFO is
\* accepted with or without a symbol; CANCEL and MOVE_SL with a symbol are
\* accepted whatever their other fields.
C19_ActionAndSymbolRequired ==
    Validated
      => /\ (trial.ok => trial.candidate.action \in {"ENTRY", "CANCEL", "MOVE_SL", "CLOSE", "INFO"})
         /\ (trial.ok /\ trial.candidate.action # "INFO" => trial.candidate.symbol # <<>>)
         /\ (trial.candidate.action = "INFO" => trial.ok)
         /\ (trial.candidate.action \in {"CANCEL", "MOVE_SL"} /\ trial.candidate.symbol # <<>>
               => trial.ok)

C19_Witness ==
    /\ Validated
    /\ trial.candidate.action = "MOVE_SL"
    /\ trial.candidate.symbol = <<"B", "T", "C">>
    /\ trial.candidate.side = ""
    /\ trial.candidate.entry_price = None
    /\ trial.candidate.close_ratio = Str("half")
    /\ trial.parsed.symbol = BTCUSDT
    /\ trial.ok

(* ------------------------ the connection loop ------------------------- *)
\* C21: after the k-th failure in a row (k >= 1, counted since the last
\* successful connect) the loop waits min(reconnect_interval * k, 60) before
\* it connects again: the wait is never above 60 and is never shorter than the
\* wait after the failure before it.
C21_BackoffWait ==
    [][(attempt' = attempt + 1 /\ mpc' = "backoff")
         => /\ attempt' >= 1
            /\ wait' = Min(config.reconnect_interval * attempt', 60)
            /\ wait' <= 60
            /\ (attempt >= 1 => wait' >= wait)]_vars

C21_Witness ==
    /\ mpc = "backoff"
    /\ attempt = 2
    /\ config.reconnect_interval = 40
    /\ wait = 60

Listening == ws /\ mpc \in {"listen", "poll", "dispatch"}

\* C22 as stated: the label is connected only while a session set up by a
\* successful connect() is being listened on.
C22_ConnectedOnlyWhileListening == connection_status = "connected" => Listening

\* C22 amended: whenever connect() succeeds the attempt counter is reset to
\* zero and the label becomes connected; the label is connected only while a
\* session set up by a successful connect() is being listened on, or after a
\* shutdown signal has taken the loop out of listen().
C22_ConnectedWhileListeningOrShutDown ==
    [][/\ (mpc = "inject" /\ mpc' = "listen"
             => attempt' = 0 /\ connection_status' = "connected" /\ ws')
       /\ (connection_status' = "connected"
             => \/ ws' /\ mpc' \in {"listen", "poll", "dispatch"}
                \/ mpc' \in {"exit", "stopped"} /\ attempt' = 0)]_vars

C22_Witness ==
    /\ connection_status = "connected"
    /\ mpc = "poll"
    /\ attempt = 0
    /\ wait > 0

LoopEnded == mpc \in {"exit", "stopped"}

C24_FailedPollLeavesConnected == poll_failed => connection_status # "connected"

InListen == mpc \in {"poll", "dispatch"}

\* C25: listen(callback) calls the callback once for each event of each
\* drained batch, in the order of the batch, and for nothing else; a batch is
\* drained only when the one before is used up; listen() is left only by an
\* exception going up to the caller; and called without a session it raises
\* before it polls anything.
C25_ListenHandsEachEventOnce ==
    [][/\ (batch' # batch
             => \/ /\ batch = <<>>
                   /\ mpc = "poll"
                   /\ batch' = jsQueue
                   /\ jsQueue' = <<>>
                   /\ invoked' = invoked
                \/ /\ batch # <<>>
                   /\ batch' = Tail(batch)
                   /\ invoked'.n = invoked.n + 1
                   /\ invoked'.id = Head(batch).data.id
                   /\ last_handed' = Head(batch).seq)
       /\ (invoked'.n # invoked.n => batch # <<>> /\ batch' = Tail(batch))
       /\ (InListen /\ mpc' \notin {"poll", "dispatch"}
             => attempt' = attempt + 1 /\ connection_status' = "reconnecting")
       /\ (mpc = "listen" /\ ~ws
             => mpc' \notin {"poll", "dispatch"})
       /\ (mpc = "listen" /\ ~ws /\ mpc' # mpc
             => /\ attempt' = attempt + 1
                /\ jsQueue' = jsQueue
                /\ batch' = batch)]_vars

C25_Witness ==
    /\ invoked.n = 2
    /\ handed = {1, 2}
    /\ last_handed = 2
    /\ batch = <<>>
    /\ mpc = "dispatch"
    /\ emitted = 2
    /\ poll_failed = FALSE
    /\ failures = MaxMainFailures

\* a step of the heartbeat task: its record changes and main() is not cancelling it
Reported ==
    /\ heartbeat.task = "running"
    /\ heartbeat' # heartbeat
    /\ ~(mpc = "exit" /\ mpc' = "stopped")

\* C26: a heartbeat report, failed or not, changes neither the connection
\* state nor the attempt counter nor where the main loop is, leaves the task
\* running for the later reports, and carries the state label current when it
\* is sent.
C26_HeartbeatFailureStaysInTheTask ==
    [][Reported
         => /\ heartbeat'.status = connection_status
            /\ heartbeat'.task = "running"
            /\ mainVars' = mainVars
            /\ routerVars' = routerVars
            /\ listenVars' = listenVars]_vars

C26_Witness ==
    /\ heartbeat.task = "running"
    /\ ~heartbeat.ok
    /\ heartbeat.status = "reconnecting"
    /\ connection_status = "connected"
    /\ mpc = "dispatch"

\* C27: an exception raised while one message is handled is contained: the
\* callback is over, the rest of the batch is still there to be handed on,
\* listen() goes on and the state stays connected; and the main loop is left
\* only by the failure that takes the attempt counter over a configured
\* ceiling, or by the shutdown signal (which counts no attempt).
C27_HandlerErrorIsContained ==
    [][/\ (invoked'.outcome = "raised" /\ invoked.outcome # "raised"
             => /\ rpc' = "idle"
                /\ mpc' = "dispatch"
                /\ batch' = batch
                /\ ws'
                /\ connection_status = "connected"
                /\ connection_status' = "connected"
                /\ attempt' = attempt
                /\ wait' = wait)
       /\ (mpc # "exit" /\ mpc' = "exit"
             => \/ attempt' = attempt
                \/ /\ config.max_reconnect_attempts > 0
                   /\ attempt' > config.max_reconnect_attempts)]_vars

C27_Witness ==
    /\ invoked.outcome = "raised"
    /\ invoked.n = 1
    /\ batch # <<>>
    /\ rpc = "idle"
    /\ mpc = "dispatch"
    /\ connection_status = "connected"

\* C28: when the main loop has ended, by the shutdown signal or at the
\* ceiling, the run stops with the session torn down and the heartbeat task
\* cancelled: nothing is reported afterwards; and a close() that raises during
\* the teardown does not keep the run from stopping that way.
C28_StoppedMeansTornDownAndSilent ==
    [][/\ (mpc' = "stopped" => ~ws' /\ heartbeat'.task # "running")
       /\ (mpc = "stopped" => heartbeat' = heartbeat /\ mpc' = "stopped" /\ ~ws')
       /\ (mpc = "exit" /\ mpc' # "exit"
             => /\ mpc' = "stopped"
                /\ (ws => closed' \in close_outcomes)
                /\ (heartbeat.task = "running" => heartbeat'.task = "cancelled"))]_vars

C28_Witness ==
    /\ mpc = "stopped"
    /\ closed = "raised"
    /\ heartbeat.task = "cancelled"
    /\ heartbeat.status = "connected"
    /\ connection_status = "connected"

(* ---------------------------- the seen-set ---------------------------- *)
\* C29: after every handle_message call the seen-set holds at most
\* _max_dedup_size identifiers: the call whose recording takes it over that
\* size evicts _max_dedup_size // 2 of them before it goes on.
C29_SeenSetIsBounded ==
    [][/\ Cardinality(processed_ids') <= MaxDedupSize
       /\ (processed_ids' # processed_ids /\ Cardinality(processed_ids) = MaxDedupSize
             => Cardinality(processed_ids') = MaxDedupSize + 1 - (MaxDedupSize \div 2))]_vars

C29_Witness ==
    /\ invoked.outcome = "accepted"
    /\ Cardinality(processed_ids) = MaxDedupSize + 1 - (MaxDedupSize \div 2)
    /\ \E i \in Ids : delivered[i] > 0 /\ i \notin processed_ids

\* C30: when a trim happens, the identifier recorded by the call that caused
\* it is not among the evicted ones: an accepted message's identifier is in
\* the seen-set when the call has recorded it.
C30_NewestIdSurvivesTheTrim ==
    [][(invoked'.n # invoked.n /\ invoked'.outcome = "accepted")
         => invoked'.id \in processed_ids']_vars

(* ------------------------- the ingress filters ------------------------ *)
\* the event the harness handed over last
Handed(h) == h[Len(h)]

Allowed(m) ==
    /\ m.channel_id \in config.channel_ids
    /\ (config.guild_ids = {} \/ m.guild_id \in config.guild_ids)
    /\ m.author_id \in config.author_ids

\* the body, then title and description of each block, the empty ones left out
TextParts(m) ==
    SelectSeq(<<m.content>> \o
              [k \in 1..(2 * Len(m.embeds)) |->
                 IF k % 2 = 1 THEN m.embeds[(k + 1) \div 2].title
                 ELSE m.embeds[k \div 2].description],
              LAMBDA part : part # <<>>)

\* C31: handle_message applies the allow-lists, then assembles the text (body,
\* then each block's title and description, newline-joined) and drops the
\* event when it is blank, then checks the seen-set: an event dropped by an
\* allow-list or for blank text leaves the seen-set as it was and sends
\* nothing, an event that passes and whose identifier is not in the seen-set
\* is accepted, and an accepted text that starts with the ENTRY prefix is
\* forwarded as assembled.
C31_FiltersThenTextThenDedup ==
    [][(trial.stage = "filter" /\ trial'.history # trial.history)
         => LET m == Handed(trial'.history)
                text == Join(TextParts(m))
            IN  /\ invoked'.id = m.id
                /\ (~Allowed(m) => invoked'.outcome = "filtered")
                /\ (Allowed(m) /\ Strip(text) = <<>> => invoked'.outcome = "empty")
                /\ (invoked'.outcome \in {"filtered", "empty"}
                      => /\ processed_ids' = processed_ids
                         /\ delivered' = delivered
                         /\ rpc' = "idle")
                /\ (Allowed(m) /\ Strip(text) # <<>>
                      => invoked'.outcome = (IF m.id \in processed_ids THEN "duplicate"
                                             ELSE "accepted"))
                /\ (invoked'.outcome = "accepted" /\ StartsWith(Strip(text), EMOJI_ENTRY)
                      => rpc' = "post")
                /\ (rpc' = "post" => post'.payload.message = text)]_vars

C31_Witness ==
    /\ trial.stage = "filter"
    /\ Len(trial.history) = 2
    /\ trial.history[1].id = trial.history[2].id
    /\ trial.history[1].channel_id = "chan2"
    /\ trial.history[1].content = TextEntry
    /\ invoked.outcome = "accepted"
    /\ rpc = "post"
    /\ post.payload.message =
         TextEntry \o <<"nl">> \o TextChat \o <<"nl">> \o TextClose
    /\ processed_ids = {invoked.id}

(* ----------------------- the classifier's retries --------------------- *)
RateLimited(a) == a.kind = "rate_limit"
Answered(a) == a.kind = "json" /\ validate(a.d).ok

\* C32: a rate-limited first call is retried: when the second call answers a
\* valid dict, parse has called the model twice, slept retry_delays[0] in
\* between and returns the validated dict.
C32_RateLimitIsRetried ==
    (/\ trial.stage = "parsed"
     /\ trial.client
     /\ Len(trial.script) >= 2
     /\ RateLimited(trial.script[1])
     /\ Answered(trial.script[2]))
      => /\ trial.calls = 2
         /\ trial.sleeps = <<trial.retry_delays[1]>>
         /\ trial.returned = SomeParsed(validate(trial.script[2].d).parsed)

C34_DisconnectIsIdempotent ==
    [][/\ (trial.stage = "client" /\ trial'.disconnects # trial.disconnects
             => /\ ~ws'
                /\ mpc' = mpc
                /\ (~ws => closed' = closed)
                /\ <<routerVars, pageVars, listenVars>>' = <<routerVars, pageVars, listenVars>>
                /\ <<attempt, connection_status, wait, heartbeat>>'
                     = <<attempt, connection_status, wait, heartbeat>>)
       /\ (trial.stage = "client" /\ trial.disconnects > 0
             => ~ws /\ mpc' \notin {"poll", "dispatch"})]_vars

C34_Witness ==
    /\ trial.stage = "client"
    /\ trial.disconnects = 2
    /\ closed = "raised"
    /\ ~ws
    /\ mpc = "backoff"
    /\ attempt = 1
    /\ jsSubs = 1

(* ------------------------- capture activation ------------------------- *)
\* C35: connect() returns, and listen() is entered, only with the capture hook
\* armed (activation reported ok or already-active); with any other result
\* connect() raises, which the main loop counts as a failed attempt: the label
\* becomes reconnecting and listen() is not entered for that attempt.
C35_ConnectNeedsTheHookArmed ==
    [][/\ (mpc = "inject" /\ mpc' = "listen"
             => /\ jsActive' /\ jsQueueDef' /\ jsSubs' >= 1
                /\ ws'
                /\ connection_status' = "connected")
       /\ (mpc = "inject" /\ mpc' # "listen" /\ attempt' # attempt
             => /\ attempt' = attempt + 1
                /\ mpc' \in {"backoff", "exit"}
                /\ connection_status' = "reconnecting"
                /\ pageVars' = pageVars)
       /\ (mpc' \in {"listen", "poll"} /\ mpc # mpc'
             => \/ mpc = "inject" /\ mpc' = "listen"
                \/ mpc \in {"listen", "dispatch"} /\ mpc' = "poll")]_vars

C35_Witness ==
    /\ mpc = "backoff"
    /\ ws
    /\ ~jsActive
    /\ ~jsQueueDef
    /\ jsSubs = 0
    /\ attempt = 1
    /\ connection_status = "reconnecting"
    /\ closed = "none"

(* --------------------- the delivery client's retries ------------------ *)
Retried(resp) == resp.kind = "exception" \/ (resp.kind = "http" /\ resp.status \in 500..599)
Success2xx(resp) == resp.kind = "http" /\ resp.status \in 200..299
ClientError(resp) == resp.kind = "http" /\ resp.status \in 400..499

\* C36: _post_with_retry issues at most 3 requests and sleeps at most twice;
\* it goes on only after a 5xx response or a network failure, and it ends with
\* the first response that is a success or a client error, or with the third
\* request; a success (2xx) that follows retried failures is returned as
\* success.
C36_RetriesEndAtFirstSuccessOrClientError ==
    /\ obs.requests <= 3
    /\ Len(obs.sleeps) <= 2
    /\ (rpc \in {"post", "sleep"} /\ obs.requests > 0 => Retried(obs.resp))
    /\ (Logging /\ obs.requests > 0
          => /\ Len(obs.sleeps) = obs.requests - 1
             /\ \/ Success2xx(obs.resp)
                \/ ClientError(obs.resp)
                \/ obs.requests = 3 /\ Retried(obs.resp)
             /\ (Success2xx(obs.resp) => result.success))

(* ------------------------- the liveness task -------------------------- *)
\* connect() has returned: main() goes on to listen()
Connected == mpc = "inject" /\ mpc' = "listen"

\* C37: at most one liveness task is alive at any point. The task is created
\* by a successful connect and by nothing else, a later successful connect
\* leaves the task that is alive as it is, and while main() is reconnecting
\* the task stays alive and its reports carry the label of that moment.
C37_OneLivenessTask ==
    [][/\ heartbeat'.live <= 1
       /\ heartbeat'.live = (IF heartbeat'.task = "running" THEN 1 ELSE 0)
       /\ (heartbeat'.live > heartbeat.live => Connected /\ heartbeat.task = "none")
       /\ (Connected => heartbeat'.task = "running")
       /\ (Connected /\ heartbeat.task = "running" => heartbeat' = heartbeat)
       /\ (heartbeat.task = "running" /\ mpc' # "stopped" => heartbeat'.task = "running")
       /\ (Reported => heartbeat'.status = connection_status)]_vars

C37_Witness ==
    /\ mpc = "listen"
    /\ failures < MaxMainFailures
    /\ heartbeat.live = 1
    /\ heartbeat.status = "reconnecting"
    /\ connection_status = "connected"

(* ---------------- failures counted since the last connect ------------- *)
\* C38: attempt counts the failures since the last successful connect():
\* connect() returning brings it to 0, every failure adds one. A failure of
\* listen() on an established session therefore makes it 1, the wait is the
\* base interval, and the loop is not left, whatever the ceiling (N >= 1).
C38_ListenFailuresNeverReachTheCeiling ==
    [][/\ (Connected => attempt' = 0)
       /\ (Listening => attempt = 0)
       /\ (attempt' # attempt /\ ~Connected => attempt' = attempt + 1)
       /\ (Listening /\ attempt' # attempt
             => /\ attempt' = 1
                /\ mpc' = "backoff"
                /\ wait' = Min(config.reconnect_interval, MaxWait))]_vars

C38_Witness ==
    /\ mpc = "backoff"
    /\ config.max_reconnect_attempts = 1
    /\ jsSubs = 2
    /\ failures = 0
    /\ attempt = 1
    /\ wait = config.reconnect_interval

(* ------------------------------- dry run ------------------------------ *)
\* C39: with dry_run set on the router, whatever the messages and the
\* classifier's results, no request goes to the execute-trade, the
\* broadcast-trade or the execute-signal endpoint; a request that is issued is
\* a POST of raw text to the parse endpoint, and send_trade issues none.
C39_DryRunReachesOnlyTheParseEndpoint ==
    config.dry_run
      => /\ \A u \in obs.urls :
               /\ u \notin {base_url \o execute_trade_endpoint,
                            base_url \o broadcast_trade_endpoint,
                            base_url \o execute_endpoint}
               /\ u = base_url \o parse_endpoint
               /\ post.payload.kind = "message"
               /\ post.payload.message = cur.content
         /\ (obs.requests > 0 => obs.urls # {} /\ calls = <<"send_signal">>)

C39_Witness ==
    /\ config.dry_run
    /\ config.ai_enabled
    /\ calls = <<"send_signal">>
    /\ obs.requests = 2
    /\ obs.urls = {base_url \o parse_endpoint}

(* ------------------- forwarding without a classifier ------------------ *)
HasPrefix(text, emojis) == \E e \in emojis : StartsWith(Strip(text), e)

HasModifyKeyword(text) ==
    \/ Contains(text, <<"TP-SL", " ", "xiu", "gai">>)
    \/ Contains(text, <<"TP-SL", "xiu", "gai">>)

\* the texts the claim lets through
Forwardable(text) ==
    \/ HasPrefix(text, {EMOJI_ENTRY, EMOJI_CANCEL})
    \/ /\ ~HasPrefix(text, {EMOJI_ENTRY, EMOJI_CANCEL, EMOJI_ROCKET, EMOJI_STOP, EMOJI_MONEY})
       /\ HasModifyKeyword(text)

====
